---- MODULE Spec2Model ----
(***************************************************************************)
(* ankiplace: a 32x32 shared canvas backed by SQLite, where users earn     *)
(* paint by submitting review proofs and spend it by painting pixels.      *)
(*                                                                         *)
(* The model follows src/main.py statement by statement.  Every request    *)
(* handler opens its own connection (get_db_connection) and runs in its    *)
(* own worker thread, so handlers interleave between SQL statements.       *)
(* Connections use the sqlite3 module's default, deferred isolation level: *)
(* a SELECT runs outside any transaction and sees the committed database;  *)
(* the first INSERT/UPDATE of a handler implicitly begins a transaction    *)
(* and takes the database's single write (RESERVED) lock; the writes stay  *)
(* private to the connection until conn.commit().  A statement that needs  *)
(* the write lock while another connection holds it waits, and raises      *)
(* OperationalError ("database is locked") when the busy timeout expires.  *)
(* An exception leaves the handler without commit; the connection is       *)
(* rolled back when it is deallocated.                                     *)
(***************************************************************************)
EXTENDS Integers, Sequences, FiniteSets, Bags, TLC

(***************************************************************************)
(* Program constants                                                       *)
(***************************************************************************)
GRID_SIZE == 32
PALETTE_SIZE == 16
EXCHANGE_RATE == 10

(***************************************************************************)
(* Bounds of the model                                                     *)
(***************************************************************************)
NProcs == 2        \* concurrent request handlers (worker threads)
MaxUsers == 2      \* identifiers uuid4 can hand out
MaxReqs == 2       \* requests issued in one behaviour
MaxTime == 1       \* distinct readings of time.time()

Procs == 1..NProcs
UserIds == {ToString(n) : n \in 1..MaxUsers}   \* user_id TEXT, from str(uuid.uuid4())
NoSuchUser == "nobody"                          \* an identifier no Register ever returned
RequestUserIds == UserIds \cup {NoSuchUser}
Times == 1..MaxTime
Usernames == {"ann"}

Axis == 0..(GRID_SIZE - 1)

(***************************************************************************)
(* SQL values.  A REAL column holds a number or NULL.  Timestamps arrive   *)
(* as Python floats; the float nan is bound as NULL by the sqlite3 module. *)
(***************************************************************************)
NULL == "NULL"
NaN == "nan"
FiniteTimestamps == {"1.0"}
Timestamps == FiniteTimestamps \cup {NaN}

BindReal(t) == IF t = NaN THEN NULL ELSE t

\* An INTEGER parameter: the sqlite3 module binds a Python int that fits SQLite's
\* 64-bit integer and raises OverflowError on any other.  TLC's integers are
\* narrower than 64 bits; IntegerLimit stands for 2**63.
IntegerLimit == 2^30
FitsInteger(n) == -IntegerLimit <= n /\ n < IntegerLimit

\* the SQL comparison a = b used in WHERE clauses: never true on NULL
SqlEq(a, b) == a # NULL /\ b # NULL /\ a = b

VARIABLES
    canvas,          \* table canvas, by column: color[x][y], last_user_id[x][y], last_modified[x][y]
    users,           \* table users: user_id -> [username, paint_balance, created_at]
    review_proofs,   \* table review_proofs: bag of rows <<user_id, card_id, timestamp>>
    tx,              \* the open write transaction: its owner and private tables
    pc,              \* per handler: the statement it executes next
    req,             \* per handler: the request being served
    new_proofs_count,\* per handler: submit_reviews' counter
    idx,             \* per handler: position in submission.proofs
    resp,            \* per handler: the response of its last finished request
    nreq,            \* requests issued so far
    audit,           \* history: per user, the debits and the cell updates committed;
                     \*          per painted cell, the request of its last committed paint
    tally,           \* history: per user, what their successful requests returned
    burst,           \* history: per user, the paints issued since the last credit
    submitted,       \* history: the (user, proof list) pairs of successful submissions
    resub            \* history: per handler, its submission repeats a completed one

db == <<canvas, users, review_proofs>>
vars == <<canvas, users, review_proofs, tx, pc, req, new_proofs_count, idx, resp, nreq,
          audit, tally, burst, submitted, resub>>

(***************************************************************************)
(* Requests and responses                                                  *)
(***************************************************************************)
NoReq == [op |-> "none", x |-> 0, y |-> 0, color |-> 0, user_id |-> NoSuchUser,
          username |-> "", proofs |-> <<>>]

PixelUpdate(x, y, color, uid) ==
    [NoReq EXCEPT !.op = "paint", !.x = x, !.y = y, !.color = color, !.user_id = uid]

UserRegister(username, new_id) ==
    [NoReq EXCEPT !.op = "register", !.username = username, !.user_id = new_id]

ReviewSubmission(uid, proofs) ==
    [NoReq EXCEPT !.op = "submit", !.user_id = uid, !.proofs = proofs]

NoResp == [op |-> "none", status |-> 0, detail |-> "", user_id |-> NoSuchUser,
           new_proofs |-> 0, paint_awarded |-> 0]

Response(r, status, detail) ==
    [NoResp EXCEPT !.op = r.op, !.status = status, !.detail = detail,
                   !.user_id = r.user_id]

(***************************************************************************)
(* Transactions                                                            *)
(***************************************************************************)
NoTx == [owner |-> 0, canvas |-> <<>>, users |-> <<>>, review_proofs |-> EmptyBag,
         audit |-> <<>>]

\* the implicit BEGIN before a connection's first INSERT/UPDATE, with the
\* write lock that statement takes; a connection already writing keeps its own
Begin(p) ==
    IF tx.owner = p THEN tx
    ELSE [owner |-> p, canvas |-> canvas, users |-> users,
          review_proofs |-> review_proofs, audit |-> audit]

CanWrite(p) == tx.owner \in {0, p}

\* what connection p reads: its own uncommitted writes, else the committed tables
ViewUsers(p) == IF tx.owner = p THEN tx.users ELSE users
ViewProofs(p) == IF tx.owner = p THEN tx.review_proofs ELSE review_proofs

(***************************************************************************)
(* The requests the clients send                                           *)
(***************************************************************************)
Range(a, b) == [i \in 1..(b - a + 1) |-> <<a + i - 1, "1.0">>]

PaintInputs == {<<0, 0, 15>>, <<31, 1, 3>>, <<32, 0, 0>>, <<0, 0, 16>>, <<32, 0, 16>>}

Batches == {Range(1, 10), <<<<11, "1.0">>, <<11, "1.0">>>>, <<<<1, NaN>>>>}

\* batches whose second proof, if any, carries a card_id beyond SQLite's integers
UnboundBatches == {<<<<12, "1.0">>>>, <<<<12, "1.0">>, <<IntegerLimit, "1.0">>>>}

(***************************************************************************)
(* Initial states: the database as init_db() leaves it when the module is  *)
(* loaded.  On first start there is no database file: init_db creates the  *)
(* three tables and fills the canvas.  On a later start the file holds     *)
(* what earlier runs committed and init_db changes nothing; the model      *)
(* starts from the fresh database and from one such file, in which user    *)
(* "1" has registered and submitted the proofs Range(1, 10) for one paint. *)
(***************************************************************************)
\* the table canvas as CREATE TABLE leaves it, and with the rows init_db inserts
\* into it: (x, y, 0, None, 0) for x in range(32), y in range(32)
EmptyCanvas == [color |-> <<>>, last_user_id |-> <<>>, last_modified |-> <<>>]

InitCanvas ==
    [color         |-> [x \in Axis |-> [y \in Axis |-> 0]],
     last_user_id  |-> [x \in Axis |-> [y \in Axis |-> NULL]],
     last_modified |-> [x \in Axis |-> [y \in Axis |-> 0]]]

\* SELECT count(*) FROM canvas gives 0
CountIsZero(table) == \A x \in DOMAIN table.color : DOMAIN table.color[x] = {}

\* InitDbCanvas without the test of the count
InitDbCanvasUnguarded(table) == InitCanvas

\* what init_db makes of the table canvas it finds: it fills an empty table
\* and leaves any other as it is
InitDbCanvas(table) == IF CountIsZero(table) THEN InitCanvas ELSE table

NoHistory ==
    [audit |-> [debits |-> [u \in UserIds |-> 0], cell_updates |-> [u \in UserIds |-> 0],
                last_paint |-> <<>>],
     tally |-> [u \in UserIds |-> [new_proofs |-> 0, paint_awarded |-> 0, paints |-> 0]],
     burst |-> [u \in UserIds |-> [valid |-> FALSE, B |-> 0, N |-> 0, ok |-> 0, denied |-> 0]],
     submitted |-> {}]

FreshDb ==
    [canvas |-> EmptyCanvas, users |-> <<>>, review_proofs |-> EmptyBag,
     history |-> NoHistory]

EarlierRunDb ==
    [canvas |-> InitCanvas,
     users |-> ("1" :> [username |-> "ann", paint_balance |-> 1, created_at |-> 1]),
     review_proofs |-> SetToBag({<<"1", n, "1.0">> : n \in 1..EXCHANGE_RATE}),
     history |-> [NoHistory EXCEPT
                    !.tally["1"].new_proofs = EXCHANGE_RATE,
                    !.tally["1"].paint_awarded = 1,
                    !.burst["1"] = [valid |-> TRUE, B |-> 1, N |-> 0, ok |-> 0, denied |-> 0],
                    !.submitted = {<<"1", Range(1, EXCHANGE_RATE)>>}]]

InitFrom(file) ==
    /\ canvas = InitDbCanvas(file.canvas)
    /\ users = file.users
    /\ review_proofs = file.review_proofs
    /\ tx = NoTx
    /\ pc = [p \in Procs |-> "idle"]
    /\ req = [p \in Procs |-> NoReq]
    /\ new_proofs_count = [p \in Procs |-> 0]
    /\ idx = [p \in Procs |-> 0]
    /\ resp = [p \in Procs |-> NoResp]
    /\ nreq = 0
    /\ audit = file.history.audit
    /\ tally = file.history.tally
    /\ burst = file.history.burst
    /\ submitted = file.history.submitted
    /\ resub = [p \in Procs |-> FALSE]

Init == \E file \in {FreshDb, EarlierRunDb} : InitFrom(file)

(***************************************************************************)
(* Bookkeeping shared by the handlers                                      *)
(***************************************************************************)
\* a request arrives and is given to a free worker thread; the workers are
\* interchangeable, so it is the first free one
Accept(p) ==
    /\ pc[p] = "idle"
    /\ \A q \in Procs : q < p => pc[q] # "idle"
    /\ nreq < MaxReqs
    /\ nreq' = nreq + 1

\* the handler is entered with request r and goes on to its first statement;
\* its response is still to come
Start(p, r, label) ==
    /\ pc' = [pc EXCEPT ![p] = label]
    /\ req' = [req EXCEPT ![p] = r]
    /\ resp' = [resp EXCEPT ![p] = NoResp]
    /\ UNCHANGED <<new_proofs_count, idx>>

\* handler p returns (or raises the HTTPException that becomes) a response
Reply(p, response) ==
    /\ pc' = [pc EXCEPT ![p] = "idle"]
    /\ resp' = [resp EXCEPT ![p] = response]
    /\ req' = [req EXCEPT ![p] = NoReq]
    /\ new_proofs_count' = [new_proofs_count EXCEPT ![p] = 0]
    /\ idx' = [idx EXCEPT ![p] = 0]

\* handler p leaves by an exception that is no HTTPException: the server answers
\* 500 and the connection stays open until it is deallocated
Raise(p, response) ==
    /\ pc' = [pc EXCEPT ![p] = "aborted"]
    /\ resp' = [resp EXCEPT ![p] = response]
    /\ req' = [req EXCEPT ![p] = NoReq]
    /\ new_proofs_count' = [new_proofs_count EXCEPT ![p] = 0]
    /\ idx' = [idx EXCEPT ![p] = 0]

Goto(p, label) ==
    /\ pc' = [pc EXCEPT ![p] = label]
    /\ UNCHANGED <<resp, req>>

PaintInFlight(u) ==
    \E q \in Procs : req[q].op = "paint" /\ req[q].user_id = u
                      /\ pc[q] \notin {"idle", "aborted"}

\* a paint by a known user ends with the given status
BurstEnd(u, status) ==
    IF u \notin UserIds THEN burst
    ELSE [burst EXCEPT ![u].ok = @ + (IF status = 200 THEN 1 ELSE 0),
                       ![u].denied = @ + (IF status = 403 THEN 1 ELSE 0)]

\* the balance of u was set (registration) or credited: a new burst starts
BurstReset(u, balance) ==
    [burst EXCEPT ![u] = [valid |-> ~PaintInFlight(u), B |-> balance, N |-> 0,
                          ok |-> 0, denied |-> 0]]

\* conn.commit(): the private tables of p's transaction become the database
Commit(p) ==
    IF tx.owner = p
    THEN /\ canvas' = tx.canvas
         /\ users' = tx.users
         /\ review_proofs' = tx.review_proofs
         /\ audit' = tx.audit
         /\ tx' = NoTx
    ELSE UNCHANGED <<canvas, users, review_proofs, audit, tx>>

(***************************************************************************)
(* POST /paint                                                             *)
(***************************************************************************)
InBounds(x, y) == 0 <= x /\ x < GRID_SIZE /\ 0 <= y /\ y < GRID_SIZE
\* ValidColor with the upper limit included
ValidColorInclusive(color) == 0 <= color /\ color <= PALETTE_SIZE
ValidColor(color) == 0 <= color /\ color < PALETTE_SIZE

\* PaintBegin with the colour checked ahead of the coordinates
PaintBeginColorFirst(p, x, y, color, uid) ==
    LET r == PixelUpdate(x, y, color, uid) IN
    /\ Accept(p)
    /\ IF ~ValidColor(color)
       THEN Reply(p, Response(r, 400, "Invalid color index (0-15)")) /\ UNCHANGED burst
       ELSE IF ~InBounds(x, y)
       THEN Reply(p, Response(r, 400, "Coordinates out of bounds")) /\ UNCHANGED burst
       ELSE /\ Start(p, r, "paint_select")
            /\ burst' = IF uid \in DOMAIN users
                         THEN [burst EXCEPT ![uid].N = @ + 1] ELSE burst
    /\ UNCHANGED <<canvas, users, review_proofs, tx, audit, tally, submitted, resub>>

PaintBegin(p, x, y, color, uid) ==
    LET r == PixelUpdate(x, y, color, uid) IN
    /\ Accept(p)
    /\ IF ~InBounds(x, y)
       THEN Reply(p, Response(r, 400, "Coordinates out of bounds")) /\ UNCHANGED burst
       ELSE IF ~ValidColor(color)
       THEN Reply(p, Response(r, 400, "Invalid color index (0-15)")) /\ UNCHANGED burst
       ELSE /\ Start(p, r, "paint_select")
            /\ burst' = IF uid \in DOMAIN users
                         THEN [burst EXCEPT ![uid].N = @ + 1] ELSE burst
    /\ UNCHANGED <<canvas, users, review_proofs, tx, audit, tally, submitted, resub>>

\* PaintSelect with the cell written, and committed, ahead of the balance check
PaintSelectAfterUpdate(p) ==
    LET uid == req[p].user_id
        r == req[p] IN
    /\ pc[p] = "paint_select"
    /\ tx.owner = 0
    /\ IF uid \notin DOMAIN users
       THEN Reply(p, Response(req[p], 404, "User ID not found. Register first."))
            /\ UNCHANGED <<burst, canvas>>
       ELSE IF users[uid].paint_balance < 1
       THEN Reply(p, Response(req[p], 403, "Not enough paint drops. Study more cards!"))
            /\ burst' = BurstEnd(uid, 403)
            /\ canvas' = [canvas EXCEPT !.color[r.x][r.y] = r.color,
                                        !.last_user_id[r.x][r.y] = uid]
       ELSE Goto(p, "paint_update_canvas")
            /\ UNCHANGED <<burst, new_proofs_count, idx, canvas>>
    /\ UNCHANGED <<users, review_proofs, tx, nreq, audit, tally, submitted, resub>>

\* SELECT paint_balance FROM users WHERE user_id = ?, and the two checks on its row
PaintSelect(p) ==
    LET uid == req[p].user_id IN
    /\ pc[p] = "paint_select"
    /\ IF uid \notin DOMAIN ViewUsers(p)
       THEN Reply(p, Response(req[p], 404, "User ID not found. Register first."))
            /\ UNCHANGED burst
       ELSE IF ViewUsers(p)[uid].paint_balance < 1
       THEN Reply(p, Response(req[p], 403, "Not enough paint drops. Study more cards!"))
            /\ burst' = BurstEnd(uid, 403)
       ELSE Goto(p, "paint_update_canvas")
            /\ UNCHANGED <<burst, new_proofs_count, idx>>
    /\ UNCHANGED <<canvas, users, review_proofs, tx, nreq, audit, tally, submitted, resub>>

\* PaintUpdateCanvas on a connection in autocommit mode: the cell is committed
\* at once, the debit follows in a transaction of its own
PaintUpdateCanvasAutocommit(p) ==
    LET r == req[p]
        painted == [canvas EXCEPT !.color[r.x][r.y] = r.color,
                                  !.last_user_id[r.x][r.y] = r.user_id]
        counted == [audit EXCEPT !.cell_updates[r.user_id] = @ + 1] IN
    /\ pc[p] = "paint_update_canvas"
    /\ CanWrite(p)
    /\ canvas' = painted
    /\ audit' = counted
    /\ tx' = [owner |-> p, canvas |-> painted, users |-> users,
              review_proofs |-> review_proofs, audit |-> counted]
    /\ Goto(p, "paint_update_users")
    /\ UNCHANGED <<users, review_proofs, new_proofs_count, idx, nreq,
                   tally, burst, submitted, resub>>

\* PaintUpdateCanvas with the condition on y missing: UPDATE ... WHERE x = ?
PaintUpdateCanvasWholeColumn(p) ==
    LET r == req[p] IN
    /\ pc[p] = "paint_update_canvas"
    /\ CanWrite(p)
    /\ \E timestamp \in Times :
          tx' = [Begin(p) EXCEPT
                   !.canvas.color[r.x] = [y \in Axis |-> r.color],
                   !.canvas.last_user_id[r.x] = [y \in Axis |-> r.user_id],
                   !.canvas.last_modified[r.x] = [y \in Axis |-> timestamp],
                   !.audit.cell_updates[r.user_id] = @ + 1,
                   !.audit.last_paint = (<<r.x, r.y>> :> [user_id |-> r.user_id,
                                                          color |-> r.color]) @@ @]
    /\ Goto(p, "paint_update_users")
    /\ UNCHANGED <<canvas, users, review_proofs, new_proofs_count, idx, nreq,
                   audit, tally, burst, submitted, resub>>

\* UPDATE canvas SET color = ?, last_user_id = ?, last_modified = ? WHERE x = ? AND y = ?
PaintUpdateCanvas(p) ==
    LET r == req[p] IN
    /\ pc[p] = "paint_update_canvas"
    /\ CanWrite(p)
    /\ \E timestamp \in Times :
          tx' = [Begin(p) EXCEPT
                   !.canvas.color[r.x][r.y] = r.color,
                   !.canvas.last_user_id[r.x][r.y] = r.user_id,
                   !.canvas.last_modified[r.x][r.y] = timestamp,
                   !.audit.cell_updates[r.user_id] = @ + 1,
                   !.audit.last_paint = (<<r.x, r.y>> :> [user_id |-> r.user_id,
                                                          color |-> r.color]) @@ @]
    /\ Goto(p, "paint_update_users")
    /\ UNCHANGED <<canvas, users, review_proofs, new_proofs_count, idx, nreq,
                   audit, tally, burst, submitted, resub>>

\* PaintUpdateUsers with a WHERE clause that matches no row: nothing is debited
PaintUpdateUsersNoRow(p) ==
    /\ pc[p] = "paint_update_users"
    /\ tx' = tx
    /\ Goto(p, "paint_commit")
    /\ UNCHANGED <<canvas, users, review_proofs, new_proofs_count, idx, nreq,
                   audit, tally, burst, submitted, resub>>

\* UPDATE users SET paint_balance = paint_balance - 1 WHERE user_id = ?
PaintUpdateUsers(p) ==
    LET uid == req[p].user_id IN
    /\ pc[p] = "paint_update_users"
    /\ tx' = [tx EXCEPT !.users[uid].paint_balance = @ - 1,
                        !.audit.debits[uid] = @ + 1]
    /\ Goto(p, "paint_commit")
    /\ UNCHANGED <<canvas, users, review_proofs, new_proofs_count, idx, nreq,
                   audit, tally, burst, submitted, resub>>

PaintCommit(p) ==
    LET uid == req[p].user_id IN
    /\ pc[p] = "paint_commit"
    /\ Commit(p)
    /\ Reply(p, Response(req[p], 200, "success"))
    /\ tally' = [tally EXCEPT ![uid].paints = @ + 1]
    /\ burst' = BurstEnd(uid, 200)
    /\ UNCHANGED <<nreq, submitted, resub>>

(***************************************************************************)
(* GET /canvas                                                             *)
(***************************************************************************)
\* SELECT x, y, color FROM canvas: the rows in the order init_db inserted them
\* (x outer, y inner)
SelectCanvas(table) ==
    [k \in 1..(GRID_SIZE * GRID_SIZE) |->
        LET x == (k - 1) \div GRID_SIZE
            y == (k - 1) % GRID_SIZE IN
        [x |-> x, y |-> y, color |-> table.color[x][y]]]

\* GridIndex with the coordinates exchanged
GridIndexColumnMajor(row) == row.x * 32 + row.y

\* idx = row['y'] * 32 + row['x']
GridIndex(row) == row.y * 32 + row.x

\* one pass of the loop body: grid[idx] = row['color'] if 0 <= idx < 1024
FillEntry(grid, row) ==
    LET i == GridIndex(row) IN
    IF 0 <= i /\ i < 1024 THEN [grid EXCEPT ![i] = row.color] ELSE grid

\* the loop over the rows first..last, in order.  The range is split in halves
\* and the grid is looked at before each half, to keep the evaluation shallow.
RECURSIVE FillGrid(_, _, _, _)
FillGrid(grid, rows, first, last) ==
    IF DOMAIN grid = {} \/ first > last THEN grid
    ELSE IF first = last THEN FillEntry(grid, rows[first])
    ELSE LET mid == (first + last) \div 2 IN
         FillGrid(FillGrid(grid, rows, first, mid), rows, mid + 1, last)

\* the list get_canvas returns, indexed from 0 as in Python
CanvasGrid(table) ==
    LET rows == SelectCanvas(table) IN
    FillGrid([i \in 0..(32 * 32 - 1) |-> 0], rows, 1, Len(rows))

\* the handler runs one SELECT, in autocommit, and writes nothing
GetCanvas(p) ==
    /\ Accept(p)
    /\ Reply(p, Response([NoReq EXCEPT !.op = "canvas"], 200, "canvas"))
    /\ UNCHANGED <<canvas, users, review_proofs, tx, audit, tally, burst, submitted, resub>>

(***************************************************************************)
(* POST /user                                                              *)
(***************************************************************************)
\* uuid.uuid4(): an identifier no earlier call returned.  Identifiers are opaque,
\* so the model hands them out in order.
InUse == DOMAIN users \cup {req[q].user_id : q \in {q \in Procs : req[q].op = "register"}}
FreshIds == {ToString(n) : n \in {n \in 1..MaxUsers :
                  /\ ToString(n) \notin InUse
                  /\ \A m \in 1..(n - 1) : ToString(m) \in InUse}}

RegisterBegin(p, username) ==
    /\ Accept(p)
    /\ \E new_id \in FreshIds : Start(p, UserRegister(username, new_id), "register_insert")
    /\ UNCHANGED <<canvas, users, review_proofs, tx, audit, tally, burst, submitted, resub>>

\* RegisterInsert as INSERT OR REPLACE on a table whose username is UNIQUE: the
\* new row takes the place of the rows that carry its username
RegisterInsertReplacingName(p) ==
    LET r == req[p]
        kept == {u \in DOMAIN Begin(p).users : Begin(p).users[u].username # r.username} IN
    /\ pc[p] = "register_insert"
    /\ CanWrite(p)
    /\ \E timestamp \in Times :
          tx' = [Begin(p) EXCEPT
                   !.users = [u \in kept |-> @[u]]
                             @@ (r.user_id :> [username |-> r.username, paint_balance |-> 0,
                                               created_at |-> timestamp])]
    /\ Goto(p, "register_commit")
    /\ UNCHANGED <<canvas, users, review_proofs, new_proofs_count, idx, nreq,
                   audit, tally, burst, submitted, resub>>

\* INSERT INTO users (user_id, username, created_at) VALUES (?, ?, ?);
\* paint_balance takes its DEFAULT 0
RegisterInsert(p) ==
    LET r == req[p] IN
    /\ pc[p] = "register_insert"
    /\ CanWrite(p)
    /\ \E timestamp \in Times :
          tx' = [Begin(p) EXCEPT
                   !.users = @ @@ (r.user_id :> [username |-> r.username, paint_balance |-> 0,
                                                 created_at |-> timestamp])]
    /\ Goto(p, "register_commit")
    /\ UNCHANGED <<canvas, users, review_proofs, new_proofs_count, idx, nreq,
                   audit, tally, burst, submitted, resub>>

RegisterCommit(p) ==
    /\ pc[p] = "register_commit"
    /\ Commit(p)
    /\ Reply(p, Response(req[p], 200, "registered"))
    /\ burst' = BurstReset(req[p].user_id, 0)
    /\ UNCHANGED <<nreq, tally, submitted, resub>>

(***************************************************************************)
(* POST /submit-reviews                                                    *)
(***************************************************************************)
\* a ReviewProof is <<card_id, timestamp>>
CardId(proof) == proof[1]
Timestamp(proof) == proof[2]

\* the row and the parameters a proof is bound to
ProofRow(uid, proof) == <<uid, CardId(proof), BindReal(Timestamp(proof))>>

\* SELECT 1 FROM review_proofs WHERE user_id = ? AND card_id = ? AND timestamp = ?
SelectProof(table, uid, proof) ==
    {row \in BagToSet(table) : /\ SqlEq(row[1], uid)
                               /\ row[2] = CardId(proof)
                               /\ SqlEq(row[3], BindReal(Timestamp(proof)))}

\* PRIMARY KEY (user_id, card_id, timestamp): a row conflicts with a stored row
\* equal in all three columns; SQLite takes NULLs as distinct from each other
PrimaryKeyConflict(table, row) ==
    \E old \in BagToSet(table) : /\ SqlEq(old[1], row[1])
                                  /\ old[2] = row[2]
                                  /\ SqlEq(old[3], row[3])

PaintAwarded(p) == new_proofs_count[p] \div EXCHANGE_RATE

\* the loop over submission.proofs: its next statement once i - 1 proofs are done
LoopAt(p, i) == IF i <= Len(req[p].proofs) THEN "submit_select_proof" ELSE "submit_award"

SubmitBegin(p, uid, proofs) ==
    /\ Accept(p)
    /\ Start(p, ReviewSubmission(uid, proofs), "submit_select_user")
    /\ resub' = [resub EXCEPT ![p] = <<uid, proofs>> \in submitted]
    /\ UNCHANGED <<canvas, users, review_proofs, tx, audit, tally, burst, submitted>>

\* SubmitSelectUser without the check of the row
SubmitSelectUserUnchecked(p) ==
    /\ pc[p] = "submit_select_user"
    /\ new_proofs_count' = [new_proofs_count EXCEPT ![p] = 0]
    /\ idx' = [idx EXCEPT ![p] = 1]
    /\ Goto(p, LoopAt(p, 1))
    /\ UNCHANGED <<canvas, users, review_proofs, tx, nreq, audit, tally, burst,
                   submitted, resub>>

\* SELECT paint_balance FROM users WHERE user_id = ?
SubmitSelectUser(p) ==
    LET uid == req[p].user_id IN
    /\ pc[p] = "submit_select_user"
    /\ IF uid \notin DOMAIN ViewUsers(p)
       THEN Reply(p, Response(req[p], 404, "User not found"))
       ELSE /\ new_proofs_count' = [new_proofs_count EXCEPT ![p] = 0]
            /\ idx' = [idx EXCEPT ![p] = 1]
            /\ Goto(p, LoopAt(p, 1))
    /\ UNCHANGED <<canvas, users, review_proofs, tx, nreq, audit, tally, burst,
                   submitted, resub>>

\* binding proof.card_id raises OverflowError when it is no SQLite integer; the
\* exception leaves the handler with its transaction open
SubmitSelectProof(p) ==
    LET proof == req[p].proofs[idx[p]] IN
    /\ pc[p] = "submit_select_proof"
    /\ IF ~FitsInteger(CardId(proof))
       THEN Raise(p, Response(req[p], 500, "OverflowError"))
       ELSE IF SelectProof(ViewProofs(p), req[p].user_id, proof) # {}
       THEN /\ idx' = [idx EXCEPT ![p] = @ + 1]
            /\ UNCHANGED new_proofs_count
            /\ Goto(p, LoopAt(p, idx[p] + 1))
       ELSE /\ Goto(p, "submit_insert_proof")
            /\ UNCHANGED <<idx, new_proofs_count>>
    /\ UNCHANGED <<canvas, users, review_proofs, tx, nreq,
                   audit, tally, burst, submitted, resub>>

\* SubmitInsertProof on a connection in autocommit mode: the row is committed
\* by the INSERT itself
SubmitInsertProofAutocommit(p) ==
    LET row == ProofRow(req[p].user_id, req[p].proofs[idx[p]]) IN
    /\ pc[p] = "submit_insert_proof"
    /\ CanWrite(p)
    /\ IF PrimaryKeyConflict(review_proofs, row)
       THEN /\ UNCHANGED <<tx, review_proofs>>
            /\ Raise(p, Response(req[p], 500, "IntegrityError"))
       ELSE /\ review_proofs' = review_proofs (+) SetToBag({row})
            /\ tx' = IF tx.owner = p THEN [tx EXCEPT !.review_proofs = review_proofs']
                      ELSE tx
            /\ new_proofs_count' = [new_proofs_count EXCEPT ![p] = @ + 1]
            /\ idx' = [idx EXCEPT ![p] = @ + 1]
            /\ Goto(p, LoopAt(p, idx[p] + 1))
    /\ UNCHANGED <<canvas, users, nreq, audit, tally, burst, submitted, resub>>

\* INSERT INTO review_proofs (user_id, card_id, timestamp) VALUES (?, ?, ?)
SubmitInsertProof(p) ==
    LET row == ProofRow(req[p].user_id, req[p].proofs[idx[p]]) IN
    /\ pc[p] = "submit_insert_proof"
    /\ CanWrite(p)
    /\ IF PrimaryKeyConflict(Begin(p).review_proofs, row)
       THEN /\ tx' = Begin(p)
            /\ Raise(p, Response(req[p], 500, "IntegrityError"))
       ELSE /\ tx' = [Begin(p) EXCEPT !.review_proofs = @ (+) SetToBag({row})]
            /\ new_proofs_count' = [new_proofs_count EXCEPT ![p] = @ + 1]
            /\ idx' = [idx EXCEPT ![p] = @ + 1]
            /\ Goto(p, LoopAt(p, idx[p] + 1))
    /\ UNCHANGED <<canvas, users, review_proofs, nreq, audit, tally, burst,
                   submitted, resub>>

\* paint_awarded = new_proofs_count // 10, and
\* UPDATE users SET paint_balance = paint_balance + ? WHERE user_id = ?
SubmitAward(p) ==
    /\ pc[p] = "submit_award"
    /\ IF PaintAwarded(p) > 0
       THEN /\ CanWrite(p)
            /\ tx' = [Begin(p) EXCEPT !.users[req[p].user_id].paint_balance =
                                         @ + PaintAwarded(p)]
       ELSE UNCHANGED tx
    /\ Goto(p, "submit_commit")
    /\ UNCHANGED <<canvas, users, review_proofs, new_proofs_count, idx, nreq,
                   audit, tally, burst, submitted, resub>>

SubmitCommit(p) ==
    LET uid == req[p].user_id IN
    /\ pc[p] = "submit_commit"
    /\ Commit(p)
    /\ Reply(p, [Response(req[p], 200, "success") EXCEPT
                   !.new_proofs = new_proofs_count[p],
                   !.paint_awarded = PaintAwarded(p)])
    /\ tally' = [tally EXCEPT ![uid].new_proofs = @ + new_proofs_count[p],
                              ![uid].paint_awarded = @ + PaintAwarded(p)]
    /\ burst' = IF PaintAwarded(p) > 0
                 THEN BurstReset(uid, tx.users[uid].paint_balance) ELSE burst
    /\ submitted' = submitted \cup {<<uid, req[p].proofs>>}
    /\ resub' = [resub EXCEPT ![p] = FALSE]
    /\ UNCHANGED nreq

(***************************************************************************)
(* Failures of the connection                                              *)
(***************************************************************************)
\* the statement needs the write lock another connection holds, and the busy
\* timeout of sqlite3.connect expires: sqlite3.OperationalError
DatabaseLocked(p) ==
    /\ pc[p] \in {"paint_update_canvas", "register_insert", "submit_insert_proof"}
    /\ ~CanWrite(p)
    /\ Raise(p, Response(req[p], 500, "OperationalError"))
    /\ UNCHANGED <<canvas, users, review_proofs, tx, nreq, audit, tally, burst,
                   submitted, resub>>

\* the connection of a handler that raised is deallocated: sqlite3 rolls back
\* whatever transaction it left open
ConnDealloc(p) ==
    /\ pc[p] = "aborted"
    /\ pc' = [pc EXCEPT ![p] = "idle"]
    /\ tx' = IF tx.owner = p THEN NoTx ELSE tx
    /\ UNCHANGED <<canvas, users, review_proofs, req, new_proofs_count, idx, resp, nreq,
                   audit, tally, burst, submitted, resub>>

(***************************************************************************)
(* The server: handlers run concurrently, one statement at a time          *)
(***************************************************************************)
Work(p) ==
    \/ \E in \in PaintInputs, uid \in RequestUserIds : PaintBegin(p, in[1], in[2], in[3], uid)
    \/ PaintSelect(p)
    \/ PaintUpdateCanvas(p)
    \/ PaintUpdateUsers(p)
    \/ PaintCommit(p)
    \/ \E username \in Usernames : RegisterBegin(p, username)
    \/ RegisterInsert(p)
    \/ RegisterCommit(p)
    \/ \E uid \in RequestUserIds, proofs \in Batches : SubmitBegin(p, uid, proofs)
    \/ SubmitSelectUser(p)
    \/ SubmitSelectProof(p)
    \/ SubmitInsertProof(p)
    \/ SubmitAward(p)
    \/ SubmitCommit(p)
    \/ ConnDealloc(p)

Next == \E p \in Procs : Work(p) \/ DatabaseLocked(p)

Spec == Init /\ [][Next]_vars

\* the server when no statement ever waits long enough for the busy timeout to
\* expire: a behaviour of Spec in which DatabaseLocked never happens
NextNoTimeout == \E p \in Procs : Work(p)

SpecNoTimeout == Init /\ [][NextNoTimeout]_vars

\* the server process ends once its handlers are done and is started again on
\* the same database file: the module is loaded, init_db() runs, and the new
\* process has answered nothing yet
Restart ==
    /\ \A p \in Procs : pc[p] = "idle"
    /\ canvas' = InitDbCanvas(canvas)
    /\ resp' = [p \in Procs |-> NoResp]
    /\ UNCHANGED <<users, review_proofs, tx, pc, req, new_proofs_count, idx, nreq,
                   audit, tally, burst, submitted, resub>>

NextRestart == Next \/ Restart

SpecRestart == Init /\ [][NextRestart]_vars

\* the server under fair scheduling: a handler that has a statement to execute
\* executes it, and a statement waiting for the write lock gets the lock or
\* runs into the busy timeout
Continue(p) ==
    \/ PaintSelect(p) \/ PaintUpdateCanvas(p) \/ PaintUpdateUsers(p) \/ PaintCommit(p)
    \/ RegisterInsert(p) \/ RegisterCommit(p)
    \/ SubmitSelectUser(p) \/ SubmitSelectProof(p) \/ SubmitInsertProof(p)
    \/ SubmitAward(p) \/ SubmitCommit(p)
    \/ DatabaseLocked(p)
    \/ ConnDealloc(p)

FairSpec == Spec /\ \A p \in Procs : WF_vars(Continue(p))

\* the canvas alone: the requests that read or write the table canvas
PaintWork(p) ==
    \/ \E in \in PaintInputs, uid \in RequestUserIds : PaintBegin(p, in[1], in[2], in[3], uid)
    \/ PaintSelect(p)
    \/ PaintUpdateCanvas(p)
    \/ PaintUpdateUsers(p)
    \/ PaintCommit(p)
    \/ GetCanvas(p)
    \/ ConnDealloc(p)

NextCanvas == \E p \in Procs : PaintWork(p) \/ DatabaseLocked(p)

SpecCanvas == Init /\ [][NextCanvas]_vars

\* the proof store alone: submissions, among them batches that cannot be bound
SubmitWork(p) ==
    \/ \E uid \in RequestUserIds, proofs \in UnboundBatches : SubmitBegin(p, uid, proofs)
    \/ SubmitSelectUser(p)
    \/ SubmitSelectProof(p)
    \/ SubmitInsertProof(p)
    \/ SubmitAward(p)
    \/ SubmitCommit(p)
    \/ ConnDealloc(p)

NextSubmit == \E p \in Procs : SubmitWork(p) \/ DatabaseLocked(p)

SpecSubmit == Init /\ [][NextSubmit]_vars

(***************************************************************************)
(* Vocabulary of the properties                                            *)
(***************************************************************************)
\* this step is the one in which handler p answers its request
Replies(p) ==
    /\ resp'[p] # NoResp
    /\ \/ resp[p] = NoResp
       \/ /\ nreq' = nreq + 1
          /\ pc[p] = "idle"
          /\ \A q \in Procs : q < p => pc[q] # "idle"

DbUnchanged == UNCHANGED <<canvas, users, review_proofs>> /\ tx' = tx

Balance(u) == users[u].paint_balance

\* the rows stored for user u, and the distinct keys among them
RowsOf(u) == {row \in BagToSet(review_proofs) : row[1] = u}

\* the proofs of a batch whose key is not yet among the stored rows of u
NewKeys(u, proofs) ==
    {ProofRow(u, proofs[i]) : i \in 1..Len(proofs)} \ RowsOf(u)

\* the tables and the history of EarlierRunDb; a run from FreshDb reaches them
\* by one registration and one submission of Range(1, 10)
AtEarlierRunDb ==
    /\ users = EarlierRunDb.users
    /\ review_proofs = EarlierRunDb.review_proofs
    /\ canvas = InitCanvas
    /\ tx = NoTx
    /\ \A p \in Procs : pc[p] = "idle"
    /\ audit = EarlierRunDb.history.audit
    /\ tally = EarlierRunDb.history.tally
    /\ burst = EarlierRunDb.history.burst
    /\ submitted = EarlierRunDb.history.submitted

PaintCommits(p) == pc[p] = "paint_commit" /\ pc'[p] = "idle"

\* a table canvas with exactly one row for each cell of the 32 x 32 grid, 1024
\* rows in all, and every color a palette index
FullColumn(column) ==
    /\ DOMAIN column = 0..31
    /\ \A x \in 0..31 : DOMAIN column[x] = 0..31

OneRowPerCell(table) ==
    /\ FullColumn(table.color)
    /\ FullColumn(table.last_user_id)
    /\ FullColumn(table.last_modified)
    /\ Cardinality(DOMAIN table.color) * Cardinality(DOMAIN table.color[0]) = 1024
    /\ \A x \in 0..31, y \in 0..31 : table.color[x][y] \in 0..15

\* two requests share a key: the user they act for, or the cell they paint
\* (a proof key contains its user)
ShareKey(r, s) ==
    \/ r.user_id = s.user_id
    \/ r.op = "paint" /\ s.op = "paint" /\ r.x = s.x /\ r.y = s.y

\* the cells agree with the history of committed paints: a cell without editor
\* was never painted and is as init_db made it; any other cell carries the user
\* and the color of the last paint committed on it
CellsAgree(table, history) ==
    \A x \in Axis, y \in Axis :
        IF table.last_user_id[x][y] = NULL
        THEN /\ <<x, y>> \notin DOMAIN history.last_paint
             /\ table.color[x][y] = 0
             /\ table.last_modified[x][y] = 0
        ELSE /\ <<x, y>> \in DOMAIN history.last_paint
             /\ table.last_user_id[x][y] = history.last_paint[<<x, y>>].user_id
             /\ table.color[x][y] = history.last_paint[<<x, y>>].color

\* the user of every committed paint exists and has been debited, at least
\* once for each cell whose last paint is theirs
EditorsDebited ==
    /\ \A cell \in DOMAIN audit.last_paint : audit.last_paint[cell].user_id \in DOMAIN users
    /\ \A u \in DOMAIN users :
          Cardinality({cell \in DOMAIN audit.last_paint :
                          audit.last_paint[cell].user_id = u}) <= audit.debits[u]

\* handler p leaves its request by an exception; its connection is deallocated
Fails(p) == pc[p] # "aborted" /\ pc'[p] = "aborted"
Deallocated(p) == pc[p] = "aborted" /\ pc'[p] # "aborted"
RegisterCommits(p) == pc[p] = "register_commit" /\ pc'[p] = "idle"
SubmitCommits(p) == pc[p] = "submit_commit" /\ pc'[p] = "idle"

(***************************************************************************)
(* C1: in every reachable state, under any interleaving of Paint and       *)
(* SubmitProofs requests, every user's paint balance is >= 0.              *)
(***************************************************************************)
C1_BalanceNeverNegative ==
    \A u \in DOMAIN users : Balance(u) >= 0

(***************************************************************************)
(* C2: N concurrent paints by a user whose balance is B, N > B, with no    *)
(* credit in between: exactly B succeed, exactly N - B are refused with    *)
(* 403, and the final balance is 0.  burst[u] counts the paints of u       *)
(* issued since the balance of u was last credited; the statement is read  *)
(* once they have all been answered.                                       *)
(***************************************************************************)
C2_DebitsSerialize ==
    \A u \in DOMAIN users :
        (burst[u].valid /\ ~PaintInFlight(u) /\ burst[u].N > burst[u].B)
            => /\ burst[u].ok = burst[u].B
               /\ burst[u].denied = burst[u].N - burst[u].B
               /\ Balance(u) = 0

(***************************************************************************)
(* C3: the balance after a successful Paint is the balance before it minus *)
(* 1, and no Paint succeeds when the balance is 0 at the moment the paint  *)
(* takes effect (its commit).                                              *)
(***************************************************************************)
C3_PaintConservation ==
    [][\A p \in Procs : PaintCommits(p) =>
          /\ Balance(req[p].user_id) >= 1
          /\ users'[req[p].user_id].paint_balance = Balance(req[p].user_id) - 1]_vars

(***************************************************************************)
(* C4: debit and cell mutation of a Paint are all-or-nothing: in every     *)
(* committed state, for every user, the number of debits applied to their  *)
(* balance equals the number of cell updates committed in their name.      *)
(***************************************************************************)
C4_DebitAndCellTogether ==
    \A u \in UserIds : audit.debits[u] = audit.cell_updates[u]

C4_Witness ==
    \E u \in UserIds : audit.debits[u] >= 1 /\ audit.cell_updates[u] >= 1

(***************************************************************************)
(* C5: a Paint that fails with OutOfBounds, InvalidColor (400), NotFound   *)
(* (404) or InsufficientFunds (403) leaves all cells, all balances and all *)
(* proof records as they were: the step that answers so changes nothing,   *)
(* and until then the handler has written nothing.                         *)
(***************************************************************************)
C5_FailedPaintChangesNothing ==
    [][\A p \in Procs :
          /\ (Replies(p) /\ resp'[p].op = "paint" /\ resp'[p].status \in {400, 403, 404})
                => (DbUnchanged /\ tx.owner # p)
          /\ (pc'[p] = "paint_select") => (tx'.owner # p /\ (pc[p] # "paint_select" => DbUnchanged))
      ]_vars

\* a paint is refused for lack of funds after an earlier paint has set a cell
C5_Witness ==
    /\ \E p \in Procs : resp[p].op = "paint" /\ resp[p].status = 403
    /\ \E x \in Axis, y \in Axis : canvas.last_user_id[x][y] # NULL

(***************************************************************************)
(* C6: submitting a proof list again, after a submission of the same list  *)
(* by the same user has completed, finds nothing new: new_count = 0,       *)
(* awarded = 0, and the call writes nothing, so the balance stays what the *)
(* first call made it.                                                     *)
(***************************************************************************)
C6_ResubmissionCountsNothing ==
    \A p \in Procs :
        resub[p] => /\ new_proofs_count[p] = 0
                    /\ PaintAwarded(p) = 0
                    /\ tx.owner # p

(***************************************************************************)
(* C7: of the concurrent submissions of one user that carry the same key,  *)
(* exactly one records it; every other caller sees a duplicate and returns *)
(* normally.                                                               *)
(***************************************************************************)
C7_OneCallerSeesNew ==
    /\ \A row \in BagToSet(review_proofs) :
          row[3] # NULL => CopiesIn(row, review_proofs) = 1
    /\ \A p \in Procs : resp[p].op = "submit" => resp[p].detail # "IntegrityError"

(***************************************************************************)
(* C8: each proof is counted at most once: the store holds each            *)
(* (user, card_id, timestamp) triple at most once, and for every user the  *)
(* sum of new_count over their completed submissions is the number of      *)
(* distinct triples stored for them.                                       *)
(***************************************************************************)
C8_ProofCountedOnce ==
    /\ \A row \in BagToSet(review_proofs) : CopiesIn(row, review_proofs) = 1
    /\ \A u \in UserIds : tally[u].new_proofs = Cardinality(RowsOf(u))

(***************************************************************************)
(* C9: a successful submission returns new_count = the number of distinct  *)
(* keys of its batch not recorded before, and awarded = new_count div 10;  *)
(* the balance grows by exactly awarded.  "Before" is read at the commit,  *)
(* where the call takes effect.                                            *)
(***************************************************************************)
C9_AwardArithmetic ==
    [][\A p \in Procs : SubmitCommits(p) =>
          /\ resp'[p].new_proofs = Cardinality(NewKeys(req[p].user_id, req[p].proofs))
          /\ resp'[p].paint_awarded = resp'[p].new_proofs \div EXCHANGE_RATE
          /\ users'[req[p].user_id].paint_balance =
                 Balance(req[p].user_id) + resp'[p].paint_awarded]_vars

(***************************************************************************)
(* C10: a submission for a user that does not exist is answered 404 by the *)
(* user check, before any proof is looked at: no row is inserted and no    *)
(* balance changes.                                                        *)
(***************************************************************************)
C10_UnknownUserRejected ==
    [][\A p \in Procs :
          (pc[p] = "submit_select_user" /\ pc'[p] # pc[p]
             /\ req[p].user_id \notin DOMAIN users)
          => /\ resp'[p].op = "submit" /\ resp'[p].status = 404
             /\ pc'[p] = "idle"
             /\ idx[p] = 0 /\ idx'[p] = 0
             /\ tx.owner # p
             /\ DbUnchanged]_vars

C10_Witness ==
    \E p \in Procs : resp[p].op = "submit" /\ resp[p].status = 404

C12_GridReadsCells ==
    /\ [](LET grid == CanvasGrid(canvas) IN
            /\ DOMAIN grid = 0..1023
            /\ \A x \in 0..31, y \in 0..31 :
                  /\ grid[y * 32 + x] = canvas.color[x][y]
                  /\ grid[y * 32 + x] = IF <<x, y>> \in DOMAIN audit.last_paint
                                        THEN audit.last_paint[<<x, y>>].color ELSE 0)
    /\ [][\A p \in Procs : (Replies(p) /\ resp'[p].op = "canvas") =>
             (DbUnchanged /\ UNCHANGED <<audit, tally>>)]_vars

\* the grid is read after cell (0, 0) was painted with color 15
C12_Witness ==
    /\ \E p \in Procs : resp[p].op = "canvas" /\ resp[p].status = 200
    /\ canvas.color[0][0] = 15

(***************************************************************************)
(* C13: a Register that completes adds exactly one user: its identifier    *)
(* was the identifier of no user before, its balance is 0, also when its   *)
(* username is already taken.  The rows of all other users, every cell and *)
(* every proof record are as before; until its commit the handler changes  *)
(* no table.  No step of any request removes a user.                       *)
(***************************************************************************)
C13_RegisterAddsOneUser ==
    [][/\ \A p \in Procs :
            /\ RegisterCommits(p) =>
                  /\ req[p].user_id \notin DOMAIN users
                  /\ DOMAIN users' = DOMAIN users \cup {req[p].user_id}
                  /\ users'[req[p].user_id].paint_balance = 0
                  /\ users'[req[p].user_id].username = req[p].username
                  /\ resp'[p].status = 200 /\ resp'[p].user_id = req[p].user_id
                  /\ \A u \in DOMAIN users : users'[u] = users[u]
                  /\ UNCHANGED <<canvas, review_proofs>>
            /\ (req[p].op = "register" /\ pc'[p] # pc[p] /\ ~RegisterCommits(p)) =>
                  UNCHANGED <<canvas, users, review_proofs>>
       /\ DOMAIN users \subseteq DOMAIN users'
      ]_vars

\* a second user has registered under the username of the first
C13_Witness ==
    /\ \E p \in Procs : resp[p].op = "register" /\ resp[p].status = 200
    /\ \E u \in DOMAIN users, v \in DOMAIN users :
          u # v /\ users[u].username = users[v].username /\ users[v].paint_balance = 0

(***************************************************************************)
(* C14: a SubmitProofs call that fails persists nothing.  The step in      *)
(* which it fails and the step that disposes of its connection change no   *)
(* table and credit nothing, and the latter ends its transaction, so the   *)
(* rows it had inserted are never committed; the tables change only in a   *)
(* step in which a request completes.  Hence every stored row of a user    *)
(* was counted by a completed submission of that user, and a proof of a    *)
(* failed call is still new to a later one.                                *)
(***************************************************************************)
C14_FailedSubmitPersistsNothing ==
    /\ [](\A u \in UserIds : Cardinality(RowsOf(u)) = tally[u].new_proofs)
    /\ [][/\ \A p \in Procs :
               /\ (Fails(p) /\ req[p].op = "submit") =>
                     UNCHANGED <<canvas, users, review_proofs, tally>>
               /\ (Deallocated(p) /\ resp[p].op = "submit") =>
                     /\ UNCHANGED <<canvas, users, review_proofs, tally>>
                     /\ tx'.owner # p
                     /\ tx.owner = p => tx' = NoTx
          /\ (users' # users \/ review_proofs' # review_proofs) =>
                \E q \in Procs : SubmitCommits(q) /\ resp'[q].status = 200
         ]_vars

\* a submission has failed after inserting a row, which its transaction still holds
C14_Witness ==
    \E p \in Procs :
        /\ pc[p] = "aborted" /\ resp[p].op = "submit" /\ resp[p].status = 500
        /\ tx.owner = p
        /\ \E row \in BagToSet(tx.review_proofs) : ~BagIn(row, review_proofs)

C16_GridConstant ==
    /\ OneRowPerCell(canvas)
    /\ \A x \in 0..31, y \in 0..31 :
          /\ canvas.color[x][y] = 0
          /\ canvas.last_user_id[x][y] = NULL
          /\ canvas.last_modified[x][y] = 0
    /\ [][canvas' # canvas => OneRowPerCell(canvas')]_vars

\* a paint has changed a cell at the edge of the grid
C16_Witness ==
    canvas.color[31][1] = 3 /\ canvas.last_user_id[31][1] # NULL /\ tx = NoTx

(***************************************************************************)
(* C17: requests on different keys are independent.  A request never fails *)
(* because of a concurrent request that shares no user, no proof key and   *)
(* no cell with it: when a request is refused the write lock, the request  *)
(* holding it shares a key with it.  And a Paint or SubmitProofs of one    *)
(* user changes no other user's balance and no other user's proof rows.    *)
(***************************************************************************)
C17_DifferentKeysIndependent ==
    [][\A p \in Procs :
          /\ (Fails(p) /\ resp'[p].detail = "OperationalError"
                /\ tx.owner \in Procs /\ pc[tx.owner] # "aborted")
                => ShareKey(req[p], req[tx.owner])
          /\ (PaintCommits(p) \/ SubmitCommits(p)) =>
                /\ \A u \in DOMAIN users \ {req[p].user_id} : users'[u] = users[u]
                /\ \A row \in BagToSet(review_proofs) \cup BagToSet(review_proofs') :
                      row[1] # req[p].user_id =>
                         CopiesIn(row, review_proofs') = CopiesIn(row, review_proofs)
      ]_vars

(***************************************************************************)
(* C18: no operation blocks indefinitely, and no lock or open transaction  *)
(* is held after a request has finished.  EveryRequestFinishes is the      *)
(* first half, read under fair scheduling: a handler that has started a    *)
(* request answers it.  C18_NothingHeldAfterAnswer is the second half:     *)
(* a handler that has answered its request, by a response or by an         *)
(* exception, owns no transaction and holds no write lock.                 *)
(***************************************************************************)
EveryRequestFinishes ==
    \A p \in Procs : (pc[p] \notin {"idle", "aborted"}) ~> (pc[p] \in {"idle", "aborted"})

C18_NothingHeldAfterAnswer ==
    \A p \in Procs : pc[p] \in {"idle", "aborted"} => tx.owner # p

(***************************************************************************)
(* C19: cell provenance is consistent.  A cell has no last editor exactly  *)
(* when no paint on it was ever committed, and then its color is 0 and its *)
(* timestamp 0; otherwise its last editor is a registered user who was     *)
(* debited for that paint and its color is the one that user asked for in  *)
(* the last paint committed on the cell.  The agreement of the cells with   *)
(* the history of paints holds initially and after every step that changes *)
(* either; the editors are registered and debited in every state.          *)
(***************************************************************************)
C19_CellProvenance ==
    /\ CellsAgree(canvas, audit)
    /\ [][(canvas' # canvas \/ audit'.last_paint # audit.last_paint)
             => CellsAgree(canvas', audit')]_vars
    /\ []EditorsDebited

\* cell (0, 0) carries a paint, cell (31, 1) was never painted
C19_Witness ==
    /\ canvas.last_user_id[0][0] \in DOMAIN users /\ canvas.color[0][0] = 15
    /\ canvas.last_user_id[31][1] = NULL
    /\ tx = NoTx

(***************************************************************************)
(* C20: initialization is idempotent and non-destructive.  init_db fills   *)
(* the canvas only when the table has no row at all: the store it has      *)
(* initialized has rows, and init_db applied to it once more gives the     *)
(* same canvas.  Run again at a restart, after any requests, it finds rows *)
(* and leaves every cell, every user with their balance and every proof    *)
(* row unchanged.                                                          *)
(***************************************************************************)
C20_InitIdempotent ==
    /\ ~CountIsZero(canvas) /\ InitDbCanvas(canvas) = canvas
    /\ [][Restart => /\ ~CountIsZero(canvas)
                      /\ UNCHANGED <<canvas, users, review_proofs, tx>>]_vars

\* the server was restarted after a paint and a registration or a credit
C20_Witness ==
    /\ nreq > 0
    /\ \A p \in Procs : pc[p] = "idle" /\ resp[p] = NoResp
    /\ canvas.color[0][0] = 15
    /\ users # <<>>

====
